---------------------------- MODULE Spec2Model ----------------------------
(***************************************************************************)
(* Model of the investment calculator (InvestmentCalculator, the month     *)
(* stepper and its return metrics).                                        *)
(*                                                                         *)
(* Decimal values (decimal.js) are modelled as exact rational numbers      *)
(* [n |-> numerator, d |-> denominator] in lowest terms with d > 0.  The   *)
(* non-finite values decimal.js produces instead of throwing are kept:     *)
(* d = 0 with n = 1 is Infinity, n = -1 is -Infinity, n = 0 is NaN.        *)
(* decimal.js rounds every result to 20 significant digits and has a       *)
(* signed zero; neither is modelled (the values explored stay far below    *)
(* 20 digits).                                                             *)
(*                                                                         *)
(* Sequences are 1-based: row m of the table is tableData[m + 1].          *)
(*                                                                         *)
(* Spec takes the IRR solver as a function of the month (irrOracle);       *)
(* SolverSpec steps through its loop.  Arrays have an identity (tableRef): *)
(* calculate returns this.tableData itself, not a copy.                    *)
(***************************************************************************)
EXTENDS Integers, Sequences, FiniteSets, TLC

VARIABLES
    config,                     \* this.config
    monthDiff,                  \* this.monthDiff
    defaultMonthlyReturnRate,   \* this.defaultMonthlyReturnRate
    tableData,                  \* this.tableData
    pc,                         \* position inside calculate()
    month,                      \* loop variable of calculateAllMonths
    results,                    \* the sequences returned by calculate(), oldest first
    irrOracle,                  \* value the floating-point IRR solver returns for month m
    iteration,                  \* calculateImprovedIRR: loop variable
    rate,                       \* calculateImprovedIRR: current estimate
    evaluations,                \* calls of calculateNPVAndDerivative in the running solve
    tableRef,                   \* identity of the array this.tableData refers to
    returnedRefs                \* identities of the arrays calculate() returned

vars == <<config, monthDiff, defaultMonthlyReturnRate, tableData, pc, month,
          results, irrOracle, iteration, rate, evaluations, tableRef,
          returnedRefs>>

\* the locals of calculateImprovedIRR
solverVars == <<iteration, rate, evaluations>>

---------------------------------------------------------------------------
(* Bounds of the explored configurations *)

MaxMonths == 2

MaxCalls == 2

---------------------------------------------------------------------------
(* Decimal arithmetic *)

Abs(x) == IF x < 0 THEN -x ELSE x

Sgn(x) == IF x < 0 THEN -1 ELSE IF x > 0 THEN 1 ELSE 0

RECURSIVE GCD(_, _)
GCD(a, b) == IF b = 0 THEN a ELSE GCD(b, a % b)

\* new Decimal(n / d), in lowest terms
DecQ(n, d) ==
    LET s == IF d < 0 THEN -1 ELSE 1
        g == GCD(Abs(n), Abs(d))
    IN  [n |-> (s * n) \div g, d |-> (s * d) \div g]

\* new Decimal(n)
Dec(n) == [n |-> n, d |-> 1]

DNaN == [n |-> 0, d |-> 0]

DInf(s) == [n |-> s, d |-> 0]

isNaN(x) == x.d = 0 /\ x.n = 0

isFinite(x) == x.d > 0

isZero(x) == x.d > 0 /\ x.n = 0

\* x.plus(y)
plus(x, y) ==
    IF isNaN(x) \/ isNaN(y) THEN DNaN
    ELSE IF ~isFinite(x) /\ ~isFinite(y) THEN (IF x.n = y.n THEN x ELSE DNaN)
    ELSE IF ~isFinite(x) THEN x
    ELSE IF ~isFinite(y) THEN y
    ELSE LET g == GCD(x.d, y.d)
         IN  DecQ(x.n * (y.d \div g) + y.n * (x.d \div g), (x.d \div g) * y.d)

\* x.negated()
neg(x) == [n |-> -x.n, d |-> x.d]

\* x.minus(y)
minus(x, y) == plus(x, neg(y))

\* x.mul(y)
mul(x, y) ==
    IF isNaN(x) \/ isNaN(y) THEN DNaN
    ELSE IF ~isFinite(x) \/ ~isFinite(y)
         THEN (IF isZero(x) \/ isZero(y) THEN DNaN ELSE DInf(Sgn(x.n) * Sgn(y.n)))
    ELSE LET g1 == GCD(Abs(x.n), y.d)
             g2 == GCD(Abs(y.n), x.d)
         IN  DecQ((x.n \div g1) * (y.n \div g2), (x.d \div g2) * (y.d \div g1))

\* x.div(y): a zero divisor yields Infinity or NaN, never an exception
div(x, y) ==
    IF isNaN(x) \/ isNaN(y) THEN DNaN
    ELSE IF ~isFinite(x) THEN (IF ~isFinite(y) THEN DNaN
                               ELSE DInf(x.n * (IF y.n < 0 THEN -1 ELSE 1)))
    ELSE IF ~isFinite(y) THEN Dec(0)
    ELSE IF y.n = 0 THEN (IF x.n = 0 THEN DNaN ELSE DInf(Sgn(x.n)))
    ELSE mul(x, [n |-> Sgn(y.n) * y.d, d |-> Abs(y.n)])

\* x.gt(y)
gt(x, y) ==
    IF isNaN(x) \/ isNaN(y) THEN FALSE
    ELSE IF ~isFinite(x) THEN x.n = 1 /\ y # x
    ELSE IF ~isFinite(y) THEN y.n = -1
    ELSE x.n * y.d > y.n * x.d

\* x.gte(y)
gte(x, y) == x = y \/ gt(x, y)

---------------------------------------------------------------------------
(* Dates: local calendar fields, month 0..11 as Date.getMonth() reports it *)

IsLeap(y) == (y % 4 = 0 /\ y % 100 # 0) \/ y % 400 = 0

DaysInMonth(y, m) ==
    IF m = 1 THEN (IF IsLeap(y) THEN 29 ELSE 28)
    ELSE IF m \in {3, 5, 8, 10} THEN 30 ELSE 31

\* d = new Date(date); d.setMonth(d.getMonth() + k): a day past the end of
\* the target month rolls over into the following month
SetMonth(date, k) ==
    LET t   == date.month + k
        y   == date.year + (t \div 12)
        m   == t % 12
        dim == DaysInMonth(y, m)
    IN  IF date.day <= dim
        THEN [year |-> y, month |-> m, day |-> date.day]
        ELSE [year |-> IF m = 11 THEN y + 1 ELSE y,
              month |-> (m + 1) % 12,
              day |-> date.day - dim]

---------------------------------------------------------------------------
(* The configurations explored (InvestmentConfig) *)

\* Fee: value / applied_time_unit is the per-month rate, here 1/4
QuarterFee == [value |-> Dec(3), applied_time_unit |-> Dec(12)]

\* a fee of 1/2 per month
HalfFee == [value |-> DecQ(1, 2), applied_time_unit |-> Dec(1)]

\* a fee whose rate is negative (-1/4 per month): the type allows it
NegativeFee == [value |-> Dec(-3), applied_time_unit |-> Dec(12)]

\* config.fees: none, one, two or three fees (total rates 0 .. 1)
FeeLists ==
    { << >>,
      << QuarterFee >>,
      << HalfFee >>,
      << HalfFee, QuarterFee >>,
      << QuarterFee, HalfFee, QuarterFee >>,
      << NegativeFee >> }

\* Returns: per-month default rate 0 or 1/2
ReturnsPool ==
    { [value |-> Dec(0), applied_time_unit |-> Dec(12)],
      [value |-> Dec(6), applied_time_unit |-> Dec(12)] }

\* MonthlyReturn: value is a percentage; isEmpty is the ad hoc marker
Override(m, v, e) == [month |-> m, value |-> Dec(v), isEmpty |-> e]

\* monthlyReturns: one entry per month at most (a map month -> rate)
MonthlyReturnsPool ==
    { << >>,
      << Override(1, -200, FALSE) >>,
      << Override(2, -100, FALSE), Override(1, 50, TRUE) >>,
      << Override(1, 50, FALSE), Override(2, -200, FALSE) >> }

Date(y, m, d) == [year |-> y, month |-> m, day |-> d]

\* <<start_date, end_date>>: 0, 1 and -2 months apart
DateRanges ==
    { << Date(2024, 0, 31), Date(2024, 0, 15) >>,
      << Date(2023, 11, 1), Date(2024, 0, 15) >>,
      << Date(2024, 0, 31), Date(2023, 10, 30) >> }

GlobalPool ==
    { [ start_date           |-> r[1],
        end_date             |-> r[2],
        starting_principle   |-> p,
        monthly_contribution |-> c,
        num_months           |-> k ] :
        r \in DateRanges, p \in { Dec(0), Dec(4) },
        c \in { Dec(-2), Dec(0), Dec(2) }, k \in (-1)..MaxMonths }

Configs ==
    [ fees           : FeeLists,
      returns        : ReturnsPool,
      monthlyReturns : MonthlyReturnsPool,
      global         : GlobalPool ]

\* the exported default configuration (it has no monthlyReturns)
defaultConfig ==
    [ fees           |-> << [value |-> DecQ(3, 100), applied_time_unit |-> Dec(12)] >>,
      returns        |-> [value |-> DecQ(12, 100), applied_time_unit |-> Dec(12)],
      monthlyReturns |-> << >>,
      global         |-> [ start_date           |-> Date(2024, 0, 1),
                           end_date             |-> Date(2025, 0, 1),
                           starting_principle   |-> Dec(10000),
                           monthly_contribution |-> Dec(1000),
                           num_months           |-> 240 ] ]

\* Values the floating-point solver may hand back (a rate, not a percentage)
IrrOutcomes == { DecQ(-99, 100), DecQ(1, 10) }

---------------------------------------------------------------------------
(* Configuration resolver *)

\* variant: num_months = 0 taken as explicitly set
calculateMonthDifferenceZeroExplicit(cfg) ==
    IF cfg.global.num_months >= 0
    THEN cfg.global.num_months
    ELSE (cfg.global.end_date.year - cfg.global.start_date.year) * 12
         + (cfg.global.end_date.month - cfg.global.start_date.month)

calculateMonthDifference(cfg) ==
    IF cfg.global.num_months > 0
    THEN cfg.global.num_months
    ELSE (cfg.global.end_date.year - cfg.global.start_date.year) * 12
         + (cfg.global.end_date.month - cfg.global.start_date.month)

calculateDefaultMonthlyReturnRate(cfg) ==
    div(cfg.returns.value, cfg.returns.applied_time_unit)

\* Array.prototype.find: the first entry whose month matches, 0 for none
RECURSIVE FindMonthlyReturn(_, _, _)
FindMonthlyReturn(list, m, i) ==
    IF i > Len(list) THEN 0
    ELSE IF list[i].month = m THEN i
    ELSE FindMonthlyReturn(list, m, i + 1)

\* variant: the isEmpty marker is not consulted
getMonthlyReturnRateIgnoringEmpty(cfg, defRate, m) ==
    LET i == FindMonthlyReturn(cfg.monthlyReturns, m, 1)
    IN  IF Len(cfg.monthlyReturns) > 0 /\ i # 0
        THEN div(cfg.monthlyReturns[i].value, Dec(100))
        ELSE defRate

getMonthlyReturnRate(cfg, defRate, m) ==
    LET i == FindMonthlyReturn(cfg.monthlyReturns, m, 1)
    IN  IF Len(cfg.monthlyReturns) > 0 /\ i # 0
        THEN IF cfg.monthlyReturns[i].isEmpty
             THEN Dec(0)
             ELSE div(cfg.monthlyReturns[i].value, Dec(100))
        ELSE defRate

---------------------------------------------------------------------------
(* Month stepper *)

\* fees.reduce((total, fee) => total.plus(principle.mul(rate)), 0), left to right
\* variant: each fee charged on the balance the earlier fees already reduced
RECURSIVE FeesReduceCompounded(_, _, _, _)
FeesReduceCompounded(fees, principle, i, total) ==
    IF i > Len(fees) THEN total
    ELSE FeesReduceCompounded(fees, principle, i + 1,
            plus(total, mul(minus(principle, total),
                            div(fees[i].value, fees[i].applied_time_unit))))

RECURSIVE FeesReduce(_, _, _, _)
FeesReduce(fees, principle, i, total) ==
    IF i > Len(fees) THEN total
    ELSE FeesReduce(fees, principle, i + 1,
            plus(total, mul(principle,
                            div(fees[i].value, fees[i].applied_time_unit))))

calculateMonthlyFees(cfg, principle) ==
    FeesReduce(cfg.fees, principle, 1, Dec(0))

\* variant: month 0 already charges a fee
initializeTableFeeCharged(cfg) ==
    LET fee == calculateMonthlyFees(cfg, cfg.global.starting_principle)
    IN  << [ month                       |-> 0,
             date                        |-> cfg.global.start_date,
             startingPrinciple           |-> cfg.global.starting_principle,
             endingPrinciple             |-> minus(cfg.global.starting_principle, fee),
             returns                     |-> Dec(0),
             fees                        |-> fee,
             valueWithoutFees            |-> cfg.global.starting_principle,
             cumulativeFees              |-> fee,
             cumulativeContributions     |-> cfg.global.starting_principle,
             feesPercentage              |-> Dec(0),
             momGrossReturnRate          |-> Dec(0),
             totalGrossReturnRate        |-> Dec(0),
             momNetReturnRate            |-> Dec(0),
             momNetExclContribReturnRate |-> Dec(0),
             totalNetReturnRate          |-> Dec(0),
             timeWeightedReturn          |-> Dec(0),
             moneyWeightedReturn         |-> Dec(0) ] >>

initializeTable(cfg) ==
    << [ month                       |-> 0,
         date                        |-> cfg.global.start_date,
         startingPrinciple           |-> cfg.global.starting_principle,
         endingPrinciple             |-> cfg.global.starting_principle,
         returns                     |-> Dec(0),
         fees                        |-> Dec(0),
         valueWithoutFees            |-> cfg.global.starting_principle,
         cumulativeFees              |-> Dec(0),
         cumulativeContributions     |-> cfg.global.starting_principle,
         feesPercentage              |-> Dec(0),
         momGrossReturnRate          |-> Dec(0),
         totalGrossReturnRate        |-> Dec(0),
         momNetReturnRate            |-> Dec(0),
         momNetExclContribReturnRate |-> Dec(0),
         totalNetReturnRate          |-> Dec(0),
         timeWeightedReturn          |-> Dec(0),
         moneyWeightedReturn         |-> Dec(0) ] >>

\* variant: the contribution is never added to the balance
StartingPrincipleWithoutContribution(cfg, prevRow) == prevRow.endingPrinciple

\* startingPrinciple after step 1 (contribution at the start of the month)
StartingPrincipleOf(cfg, prevRow) ==
    IF gt(cfg.global.monthly_contribution, Dec(0))
    THEN plus(prevRow.endingPrinciple, cfg.global.monthly_contribution)
    ELSE prevRow.endingPrinciple

\* variant: the contribution is added whatever its sign
CumulativeContributionsUnguarded(cfg, prevRow) ==
    plus(prevRow.cumulativeContributions, cfg.global.monthly_contribution)

\* variant: accumulated on the balance instead of on the previous total
CumulativeContributionsFromBalance(cfg, prevRow) ==
    IF gt(cfg.global.monthly_contribution, Dec(0))
    THEN plus(prevRow.endingPrinciple, cfg.global.monthly_contribution)
    ELSE prevRow.cumulativeContributions

CumulativeContributionsOf(cfg, prevRow) ==
    IF gt(cfg.global.monthly_contribution, Dec(0))
    THEN plus(prevRow.cumulativeContributions, cfg.global.monthly_contribution)
    ELSE prevRow.cumulativeContributions

\* variant: the month's contribution earns no return in the shadow balance
ValueWithoutFeesReturnOnPrevious(cfg, prevRow, monthlyReturnRate) ==
    IF gt(cfg.global.monthly_contribution, Dec(0))
    THEN plus(plus(prevRow.valueWithoutFees, cfg.global.monthly_contribution),
              mul(prevRow.valueWithoutFees, monthlyReturnRate))
    ELSE plus(prevRow.valueWithoutFees,
              mul(prevRow.valueWithoutFees, monthlyReturnRate))

ValueWithoutFeesOf(cfg, prevRow, monthlyReturnRate) ==
    IF gt(cfg.global.monthly_contribution, Dec(0))
    THEN plus(plus(prevRow.valueWithoutFees, cfg.global.monthly_contribution),
              mul(plus(prevRow.valueWithoutFees, cfg.global.monthly_contribution),
                  monthlyReturnRate))
    ELSE plus(prevRow.valueWithoutFees,
              mul(prevRow.valueWithoutFees, monthlyReturnRate))

\* variant: the fee base is the principal before returns
principleBeforeReturns(startingPrinciple, monthlyReturn) == startingPrinciple

\* step 4: principal after returns, before fees -- the base the fees are charged on
principleAfterReturnsOf(startingPrinciple, monthlyReturn) ==
    plus(startingPrinciple, monthlyReturn)

\* variant: the total return measured against the starting principal alone
totalReturnRateOnStartingPrinciple(cfg, value, cumulativeContributions) ==
    mul(minus(div(value, cfg.global.starting_principle), Dec(1)), Dec(100))

\* value.div(cumulativeContributions).minus(1).mul(100): the total net
\* (value = endingPrinciple) and total gross (value = valueWithoutFees) rates
totalReturnRate(cfg, value, cumulativeContributions) ==
    mul(minus(div(value, cumulativeContributions), Dec(1)), Dec(100))

\* variant: measured on the balance before the step's contribution
momNetReturnRateOnPrevious(endingPrinciple, startingPrinciple, prevRow) ==
    mul(minus(div(endingPrinciple, prevRow.endingPrinciple), Dec(1)), Dec(100))

\* endingPrinciple.div(startingPrinciple).minus(1).mul(100)
momNetReturnRateOf(endingPrinciple, startingPrinciple, prevRow) ==
    mul(minus(div(endingPrinciple, startingPrinciple), Dec(1)), Dec(100))

\* variant: the month's fee alone
cumulativeFeesOfMonth(prevRow, monthlyFee) == monthlyFee

\* prevRow.cumulativeFees.plus(monthlyFee)
cumulativeFeesOf(prevRow, monthlyFee) == plus(prevRow.cumulativeFees, monthlyFee)

\* variant: no division when the balance is zero
feesPercentageGuarded(fees, startingPrinciple) ==
    IF isZero(startingPrinciple) THEN Dec(0)
    ELSE mul(div(fees, startingPrinciple), Dec(100))

\* fees.div(startingPrinciple).mul(100)
feesPercentageOf(fees, startingPrinciple) ==
    mul(div(fees, startingPrinciple), Dec(100))

\* the record addTableRow pushes
addTableRow(m, date, startingPrinciple, endingPrinciple, returns, fees, valueWithoutFees, cumulativeFees, cumulativeContributions, momGrossReturnRate, totalGrossReturnRate, momNetReturnRate, momNetExclContribReturnRate, totalNetReturnRate, timeWeightedReturn, moneyWeightedReturn) ==
    [ month                       |-> m,
      date                        |-> date,
      startingPrinciple           |-> startingPrinciple,
      endingPrinciple             |-> endingPrinciple,
      returns                     |-> returns,
      fees                        |-> fees,
      valueWithoutFees            |-> valueWithoutFees,
      cumulativeFees              |-> cumulativeFees,
      cumulativeContributions     |-> cumulativeContributions,
      feesPercentage              |-> feesPercentageOf(fees, startingPrinciple),
      momGrossReturnRate          |-> momGrossReturnRate,
      totalGrossReturnRate        |-> totalGrossReturnRate,
      momNetReturnRate            |-> momNetReturnRate,
      momNetExclContribReturnRate |-> momNetExclContribReturnRate,
      totalNetReturnRate          |-> totalNetReturnRate,
      timeWeightedReturn          |-> timeWeightedReturn,
      moneyWeightedReturn         |-> moneyWeightedReturn ]

\* calculateMonth up to and including the addTableRow call: the row for
\* month m with the two placeholders
calculateMonth(cfg, defRate, prevRow, m) ==
    LET currentDate             == SetMonth(cfg.global.start_date, m)
        startingPrinciple       == StartingPrincipleOf(cfg, prevRow)
        cumulativeContributions == CumulativeContributionsOf(cfg, prevRow)
        monthlyReturnRate       == getMonthlyReturnRate(cfg, defRate, m)
        monthlyReturn           == mul(startingPrinciple, monthlyReturnRate)
        principleAfterReturns   == principleAfterReturnsOf(startingPrinciple, monthlyReturn)
        monthlyFee              == calculateMonthlyFees(cfg, principleAfterReturns)
        endingPrinciple         == minus(principleAfterReturns, monthlyFee)
        cumulativeFees          == cumulativeFeesOf(prevRow, monthlyFee)
        valueWithoutFees        == ValueWithoutFeesOf(cfg, prevRow, monthlyReturnRate)
        totalNetReturnRate      ==
            totalReturnRate(cfg, endingPrinciple, cumulativeContributions)
        momGrossReturnRate      == mul(monthlyReturnRate, Dec(100))
        totalGrossReturnRate    ==
            totalReturnRate(cfg, valueWithoutFees, cumulativeContributions)
        momNetReturnRate        ==
            momNetReturnRateOf(endingPrinciple, startingPrinciple, prevRow)
        momNetExclContribReturnRate ==
            mul(minus(div(endingPrinciple, prevRow.endingPrinciple), Dec(1)), Dec(100))
    IN  addTableRow(m, currentDate, startingPrinciple, endingPrinciple,
                    monthlyReturn, monthlyFee, valueWithoutFees, cumulativeFees,
                    cumulativeContributions, momGrossReturnRate,
                    totalGrossReturnRate, momNetReturnRate,
                    momNetExclContribReturnRate, totalNetReturnRate,
                    Dec(0), Dec(0))

---------------------------------------------------------------------------
(* Time-weighted return *)

\* calculateSinglePeriodReturn throws when row m is not in the table yet
SinglePeriodReturnThrows(table, m) == Len(table) <= m

\* table is the 1-based row sequence: row m is table[m + 1]
calculateSinglePeriodReturn(cfg, table, m) ==
    LET startValue   == table[m].endingPrinciple
        endValue     == table[m + 1].endingPrinciple
        contribution == cfg.global.monthly_contribution
    IN  IF gt(contribution, Dec(0))
        THEN mul(minus(div(minus(endValue, contribution), startValue), Dec(1)), Dec(100))
        ELSE mul(minus(div(endValue, startValue), Dec(1)), Dec(100))

\* the current month's return, replayed from the previous row with the
\* default monthly rate
CurrentPeriodReturn(cfg, defRate, table, currentMonth) ==
    LET startValue   == table[currentMonth].endingPrinciple
        contribution == IF gt(cfg.global.monthly_contribution, Dec(0))
                        THEN cfg.global.monthly_contribution ELSE Dec(0)
        principleWithContribution == plus(startValue, contribution)
        monthlyReturn         == mul(principleWithContribution, defRate)
        principleAfterReturns == plus(principleWithContribution, monthlyReturn)
        monthlyFee            == calculateMonthlyFees(cfg, principleAfterReturns)
        endValue              == minus(principleAfterReturns, monthlyFee)
    IN  IF gt(contribution, Dec(0))
        THEN mul(minus(div(minus(endValue, contribution), startValue), Dec(1)), Dec(100))
        ELSE mul(minus(div(endValue, startValue), Dec(1)), Dec(100))

PeriodReturns(cfg, defRate, table, currentMonth) ==
    [i \in 1..currentMonth |->
        IF i < currentMonth
        THEN calculateSinglePeriodReturn(cfg, table, i)
        ELSE CurrentPeriodReturn(cfg, defRate, table, currentMonth)]

RECURSIVE LinkReturns(_, _, _)
LinkReturns(periodReturns, i, cumulativeReturn) ==
    IF i > Len(periodReturns) THEN cumulativeReturn
    ELSE LinkReturns(periodReturns, i + 1,
            mul(cumulativeReturn, plus(Dec(1), div(periodReturns[i], Dec(100)))))

calculateTimeWeightedReturn(cfg, defRate, table, currentMonth) ==
    IF currentMonth = 0 THEN Dec(0)
    ELSE mul(minus(LinkReturns(PeriodReturns(cfg, defRate, table, currentMonth),
                               1, Dec(1)),
                   Dec(1)),
             Dec(100))

---------------------------------------------------------------------------
(* Money-weighted return *)

\* the outflows pushed by the loop over the elapsed months: one per month when
\* the contribution is not zero, whatever its sign
ContributionFlows(cfg, currentMonth) ==
    IF isZero(cfg.global.monthly_contribution) THEN << >>
    ELSE [i \in 1..currentMonth |-> neg(cfg.global.monthly_contribution)]

\* variant: a date only for a contribution the stepper adds to the balance
ContributionDatesWhenPositive(cfg, currentMonth) ==
    IF gt(cfg.global.monthly_contribution, Dec(0))
    THEN [i \in 1..currentMonth |-> SetMonth(cfg.global.start_date, i)]
    ELSE << >>

\* their dates: start_date with setMonth(getMonth() + i)
ContributionDates(cfg, currentMonth) ==
    IF isZero(cfg.global.monthly_contribution) THEN << >>
    ELSE [i \in 1..currentMonth |-> SetMonth(cfg.global.start_date, i)]

\* variant: the final value always recomputed from the previous row
finalValueReplayed(cfg, defRate, table, currentMonth) ==
    LET startingPrinciple     == StartingPrincipleOf(cfg, table[currentMonth])
        monthlyReturn         == mul(startingPrinciple, defRate)
        principleAfterReturns == plus(startingPrinciple, monthlyReturn)
        monthlyFee            == calculateMonthlyFees(cfg, principleAfterReturns)
    IN  minus(principleAfterReturns, monthlyFee)

\* the inflow that closes the schedule: the ending principal of row
\* currentMonth when the table holds it, else recomputed from the previous
\* row with the default monthly rate
finalValue(cfg, defRate, table, currentMonth) ==
    IF Len(table) > currentMonth
    THEN table[currentMonth + 1].endingPrinciple
    ELSE LET startingPrinciple     == StartingPrincipleOf(cfg, table[currentMonth])
             monthlyReturn         == mul(startingPrinciple, defRate)
             principleAfterReturns == plus(startingPrinciple, monthlyReturn)
             monthlyFee            == calculateMonthlyFees(cfg, principleAfterReturns)
         IN  minus(principleAfterReturns, monthlyFee)

\* cashFlows as handed to calculateImprovedIRR (toNumber taken as exact)
cashFlows(cfg, defRate, table, currentMonth) ==
    << neg(cfg.global.starting_principle) >>
        \o ContributionFlows(cfg, currentMonth)
        \o << finalValue(cfg, defRate, table, currentMonth) >>

\* dates as handed to calculateImprovedIRR
dates(cfg, currentMonth) ==
    << cfg.global.start_date >>
        \o ContributionDates(cfg, currentMonth)
        \o << SetMonth(cfg.global.start_date, currentMonth) >>

\* calculateImprovedIRR throws when the two arrays differ in length
ImprovedIRRThrows(flows, flowDates) == Len(flows) # Len(flowDates)

\* irr is what calculateImprovedIRR returns for the month's cash-flow schedule
calculateMoneyWeightedReturn(cfg, defRate, table, currentMonth, irr) ==
    IF currentMonth = 0 THEN Dec(0)
    ELSE IF isZero(cfg.global.monthly_contribution)
    THEN LET startingPrinciple     == table[currentMonth].endingPrinciple
             monthlyReturn         == mul(startingPrinciple, defRate)
             principleAfterReturns == plus(startingPrinciple, monthlyReturn)
             monthlyFee            == calculateMonthlyFees(cfg, principleAfterReturns)
             endingPrinciple       == minus(principleAfterReturns, monthlyFee)
         IN  mul(minus(div(endingPrinciple, cfg.global.starting_principle), Dec(1)),
                 Dec(100))
    ELSE mul(irr, Dec(100))

---------------------------------------------------------------------------
(* The calculator as a state machine *)

\* months for which the solver is consulted under cfg
SolverMonths(cfg) ==
    IF isZero(cfg.global.monthly_contribution)
    THEN {}
    ELSE 1..calculateMonthDifference(cfg)

\* the solver is a deterministic function of the month's schedule
IrrOracles(cfg) ==
    IF SolverMonths(cfg) = {}
    THEN { << >> }
    ELSE { [m \in SolverMonths(cfg) |-> r] : r \in IrrOutcomes }

\* let rate = 0.1
InitialRate == DecQ(1, 10)

\* new InvestmentCalculator(config)
Init ==
    /\ config \in Configs
    /\ monthDiff = calculateMonthDifference(config)
    /\ defaultMonthlyReturnRate = calculateDefaultMonthlyReturnRate(config)
    /\ tableData = << >>
    /\ pc = "constructed"
    /\ month = 0
    /\ results = << >>
    /\ irrOracle \in IrrOracles(config)
    /\ iteration = 0
    /\ rate = InitialRate
    /\ evaluations = 0
    /\ tableRef = 0
    /\ returnedRefs = << >>

\* variant: the loop stops one month early
LoopContinuesStrict == month < monthDiff

\* the loop test of calculateAllMonths
LoopContinues == month <= monthDiff

\* variant: the array is emptied in place (this.tableData.length = 0)
SameArrayRef == tableRef

\* this.tableData = []: an array that did not exist before
EmptyArrayRef == tableRef + 1

\* calculate(): reset the table, initializeTable, enter calculateAllMonths
Calculate ==
    /\ pc \in {"constructed", "returned"}
    /\ Len(results) < MaxCalls
    /\ tableRef' = EmptyArrayRef
    /\ UNCHANGED returnedRefs
    /\ tableData' = initializeTable(config)
    /\ month' = 1
    /\ pc' = "loop"
    /\ UNCHANGED <<config, monthDiff, defaultMonthlyReturnRate, results, irrOracle,
                   solverVars>>

\* calculateMonth, first half: compute the row and push it with placeholders
AddRow ==
    /\ UNCHANGED <<tableRef, returnedRefs>>
    /\ pc = "loop"
    /\ LoopContinues
    /\ tableData' = Append(tableData,
                           calculateMonth(config, defaultMonthlyReturnRate,
                                          tableData[month], month))
    /\ pc' = "patch"
    /\ UNCHANGED <<config, monthDiff, defaultMonthlyReturnRate, month, results,
                   irrOracle, solverVars>>

\* an exception on the way to the patch: calculateSinglePeriodReturn on a
\* missing row, or calculateImprovedIRR on arrays of different lengths
PatchThrows ==
    \/ \E i \in 1..(month - 1) : SinglePeriodReturnThrows(tableData, i)
    \/ /\ ~isZero(config.global.monthly_contribution)
       /\ ImprovedIRRThrows(cashFlows(config, defaultMonthlyReturnRate,
                                      tableData, month),
                            dates(config, month))

\* variant: the patch lands on the row before
PatchedTablePreviousRow(irr) ==
    LET timeWeightedReturn ==
            calculateTimeWeightedReturn(config, defaultMonthlyReturnRate,
                                        tableData, month)
        moneyWeightedReturn ==
            calculateMoneyWeightedReturn(config, defaultMonthlyReturnRate,
                                         tableData, month, irr)
    IN  [tableData EXCEPT
            ![month].timeWeightedReturn  = timeWeightedReturn,
            ![month].moneyWeightedReturn = moneyWeightedReturn]

\* the table after row `month` has its two weighted returns patched in; irr
\* is what the solver returned
PatchedTable(irr) ==
    LET timeWeightedReturn ==
            calculateTimeWeightedReturn(config, defaultMonthlyReturnRate,
                                        tableData, month)
        moneyWeightedReturn ==
            calculateMoneyWeightedReturn(config, defaultMonthlyReturnRate,
                                         tableData, month, irr)
    IN  [tableData EXCEPT
            ![month + 1].timeWeightedReturn  = timeWeightedReturn,
            ![month + 1].moneyWeightedReturn = moneyWeightedReturn]

\* calculateMonth, second half: compute TWRR and MWRR and patch row `month`;
\* an exception thrown on the way leaves calculate without a result
PatchRow ==
    /\ UNCHANGED <<tableRef, returnedRefs>>
    /\ pc = "patch"
    /\ IF PatchThrows
       THEN /\ pc' = "error"
            /\ UNCHANGED <<tableData, month>>
       ELSE /\ tableData' = PatchedTable(IF month \in DOMAIN irrOracle
                                         THEN irrOracle[month] ELSE Dec(0))
            /\ month' = month + 1
            /\ pc' = "loop"
    /\ UNCHANGED <<config, monthDiff, defaultMonthlyReturnRate, results, irrOracle,
                   solverVars>>

\* the loop of calculateAllMonths ends; calculate returns this.tableData
Return ==
    /\ pc = "loop"
    /\ ~LoopContinues
    /\ results' = Append(results, tableData)
    /\ returnedRefs' = Append(returnedRefs, tableRef)
    /\ UNCHANGED tableRef
    /\ pc' = "returned"
    /\ UNCHANGED <<config, monthDiff, defaultMonthlyReturnRate, tableData, month,
                   irrOracle, solverVars>>

Next == Calculate \/ AddRow \/ PatchRow \/ Return

Spec == Init /\ [][Next]_vars

---------------------------------------------------------------------------
(* The IRR solver, step by step (calculateImprovedIRR)                      *)
(*                                                                          *)
(* JavaScript numbers are modelled by the same rational records, DNaN for   *)
(* NaN.  The floating-point value of the NPV and of its derivative is not   *)
(* computed: each evaluation yields any pair of NPVAndDerivativeOutcomes,   *)
(* which holds a representative for every branch of the loop body.          *)

MAX_ITERATIONS == 100

PRECISION == DecQ(1, 10000000)

\* Math.abs(x) < p; false for NaN
absLt(x, p) == gt(p, x) /\ gt(x, neg(p))

\* <<npv, derivative>> pairs calculateNPVAndDerivative may return: NPV
\* converged; derivative near zero; a step below PRECISION; a step past the
\* lower and past the upper bound of the rate; NaN
NPVAndDerivativeOutcomes ==
    { << Dec(0), Dec(1) >>,
      << Dec(1), Dec(0) >>,
      << DecQ(1, 100000), Dec(200) >>,
      << Dec(200), Dec(1) >>,
      << Dec(-200), Dec(1) >>,
      << DNaN, Dec(1) >> }

\* if (rate < -0.99) rate = -0.99; if (rate > 100) rate = 100
BoundRate(r) ==
    LET low == IF gt(DecQ(-99, 100), r) THEN DecQ(-99, 100) ELSE r
    IN  IF gt(low, Dec(100)) THEN Dec(100) ELSE low

\* configurations the solver is stepped on: one month, with and without a
\* contribution (the solver runs once per calculate when there is one)
SolverConfigs ==
    { cfg \in Configs :
        /\ cfg.fees \in { << >>, << QuarterFee >> }
        /\ cfg.returns.value = Dec(0)
        /\ cfg.monthlyReturns = << >>
        /\ cfg.global.start_date = Date(2024, 0, 31)
        /\ cfg.global.end_date = Date(2024, 0, 15)
        /\ cfg.global.starting_principle = Dec(4)
        /\ cfg.global.num_months = 1 }

SolverInit ==
    /\ config \in SolverConfigs
    /\ monthDiff = calculateMonthDifference(config)
    /\ defaultMonthlyReturnRate = calculateDefaultMonthlyReturnRate(config)
    /\ tableData = << >>
    /\ pc = "constructed"
    /\ month = 0
    /\ results = << >>
    /\ irrOracle = << >>
    /\ iteration = 0
    /\ rate = InitialRate
    /\ evaluations = 0
    /\ tableRef = 0
    /\ returnedRefs = << >>

\* variant: one iteration more than MAX_ITERATIONS
IterationBudgetInclusive == iteration <= MAX_ITERATIONS

\* the loop test: iteration < MAX_ITERATIONS
IterationBudgetLeft == iteration < MAX_ITERATIONS

\* calculateMonth, second half, without a contribution: no solver call
PatchRowDirect ==
    /\ isZero(config.global.monthly_contribution)
    /\ PatchRow

\* calculateMonth, second half, with a contribution: TWRR, the schedule,
\* then calculateImprovedIRR is entered
StartIRR ==
    /\ UNCHANGED <<tableRef, returnedRefs>>
    /\ pc = "patch"
    /\ ~isZero(config.global.monthly_contribution)
    /\ IF PatchThrows
       THEN /\ pc' = "error"
            /\ UNCHANGED solverVars
       ELSE /\ pc' = "irr"
            /\ iteration' = 0
            /\ rate' = InitialRate
            /\ evaluations' = 0
    /\ UNCHANGED <<config, monthDiff, defaultMonthlyReturnRate, tableData, month,
                   results, irrOracle>>

\* one pass through the loop body
IterateIRR ==
    /\ UNCHANGED <<tableRef, returnedRefs>>
    /\ pc = "irr"
    /\ IterationBudgetLeft
    /\ \E e \in NPVAndDerivativeOutcomes :
          LET npv        == e[1]
              derivative == e[2]
              newRate    == minus(rate, div(npv, derivative))
          IN  /\ evaluations' = evaluations + 1
              /\ IF absLt(npv, PRECISION)
                 THEN /\ pc' = "irrDone"
                      /\ UNCHANGED <<rate, iteration>>
                 ELSE IF absLt(derivative, PRECISION)
                 THEN /\ pc' = "irrDone"
                      /\ UNCHANGED <<rate, iteration>>
                 ELSE IF absLt(minus(newRate, rate), PRECISION)
                 THEN /\ pc' = "irrDone"
                      /\ rate' = newRate
                      /\ UNCHANGED iteration
                 ELSE /\ pc' = "irr"
                      /\ rate' = BoundRate(newRate)
                      /\ iteration' = iteration + 1
    /\ UNCHANGED <<config, monthDiff, defaultMonthlyReturnRate, tableData, month,
                   results, irrOracle>>

\* the loop ends with the budget used up: return rate
ExhaustIRR ==
    /\ UNCHANGED <<tableRef, returnedRefs>>
    /\ pc = "irr"
    /\ ~IterationBudgetLeft
    /\ pc' = "irrDone"
    /\ UNCHANGED <<config, monthDiff, defaultMonthlyReturnRate, tableData, month,
                   results, irrOracle, solverVars>>

\* calculateImprovedIRR has returned rate: new Decimal(irr).mul(100) is
\* patched into the row; the solver's locals are gone
PatchRowIRR ==
    /\ UNCHANGED <<tableRef, returnedRefs>>
    /\ pc = "irrDone"
    /\ tableData' = PatchedTable(rate)
    /\ month' = month + 1
    /\ pc' = "loop"
    /\ iteration' = 0
    /\ rate' = InitialRate
    /\ evaluations' = 0
    /\ UNCHANGED <<config, monthDiff, defaultMonthlyReturnRate, results, irrOracle>>

SolverNext ==
    \/ Calculate
    \/ AddRow
    \/ PatchRowDirect
    \/ StartIRR
    \/ IterateIRR
    \/ ExhaustIRR
    \/ PatchRowIRR
    \/ Return

SolverSpec == SolverInit /\ [][SolverNext]_vars

---------------------------------------------------------------------------
(* Properties *)

\* row m of the table under construction
Row(m) == tableData[m + 1]

\* months whose row is in the table
Months == 1..(Len(tableData) - 1)

Contribution == config.global.monthly_contribution

Zero == Dec(0)

\* C1: every sequence calculate returns lists the rows in month order, row i
\* carrying month index i, with monthCount + 1 rows when the resolved month
\* count is >= 0 and row 0 alone when it is zero or negative.
C1_RowCount ==
    \A k \in 1..Len(results) :
        /\ Len(results[k]) = (IF monthDiff >= 0 THEN monthDiff + 1 ELSE 1)
        /\ \A i \in 1..Len(results[k]) : results[k][i].month = i - 1

C1_Witness ==
    /\ Len(results) >= 1
    /\ monthDiff >= 2
    /\ Len(results[1]) = monthDiff + 1

\* C2: the resolved month count is num_months whenever num_months > 0, whatever
\* the dates; otherwise it is (endYear - startYear) * 12 + (endMonth - startMonth),
\* the days of the month playing no part.
C2_MonthCount ==
    LET g == config.global
    IN  /\ g.num_months > 0 => monthDiff = g.num_months
        /\ g.num_months <= 0 =>
              monthDiff = (g.end_date.year - g.start_date.year) * 12
                          + (g.end_date.month - g.start_date.month)

C2_Witness ==
    /\ pc = "returned"
    /\ config.global.num_months = 0
    /\ config.global.start_date.day # config.global.end_date.day
    /\ config.global.start_date.year # config.global.end_date.year
    /\ monthDiff = 1
    /\ Len(tableData) = 2

\* C3: row 0 is the identity row: starting and ending principal both equal the
\* configured starting principal, and returns, fees, cumulativeFees,
\* feesPercentage, the five return-rate metrics and both weighted returns are zero.
C3_IdentityRow ==
    Len(tableData) >= 1 =>
        /\ Row(0).startingPrinciple = config.global.starting_principle
        /\ Row(0).endingPrinciple = config.global.starting_principle
        /\ Row(0).returns = Zero
        /\ Row(0).fees = Zero
        /\ Row(0).cumulativeFees = Zero
        /\ Row(0).feesPercentage = Zero
        /\ Row(0).momGrossReturnRate = Zero
        /\ Row(0).totalGrossReturnRate = Zero
        /\ Row(0).momNetReturnRate = Zero
        /\ Row(0).momNetExclContribReturnRate = Zero
        /\ Row(0).totalNetReturnRate = Zero
        /\ Row(0).timeWeightedReturn = Zero
        /\ Row(0).moneyWeightedReturn = Zero

C3_Witness ==
    /\ pc = "returned"
    /\ Len(tableData) = 3
    /\ config.global.starting_principle # Zero
    /\ Len(config.fees) >= 1
    /\ Row(2).timeWeightedReturn # Zero

\* the sum of the per-month fee rates fee.value / fee.applied_time_unit
RECURSIVE SumFeeRates(_, _)
SumFeeRates(fees, i) ==
    IF i > Len(fees) THEN Zero
    ELSE plus(div(fees[i].value, fees[i].applied_time_unit), SumFeeRates(fees, i + 1))

\* the rate row m reports having used
ReportedRate(m) == div(Row(m).momGrossReturnRate, Dec(100))

\* C4: every step m >= 1 contributes, then applies the return, then the fee:
\* startingPrinciple[m] is endingPrinciple[m-1] plus the contribution when that
\* is > 0; returns[m] = startingPrinciple[m] * rate_m; fees[m] is charged on
\* startingPrinciple[m] + returns[m]; endingPrinciple[m] =
\* startingPrinciple[m] + returns[m] - fees[m].
C4_StepOrder ==
    \A m \in Months :
        /\ Row(m).startingPrinciple =
              (IF gt(Contribution, Zero)
               THEN plus(Row(m - 1).endingPrinciple, Contribution)
               ELSE Row(m - 1).endingPrinciple)
        /\ Row(m).returns = mul(Row(m).startingPrinciple, ReportedRate(m))
        /\ Row(m).fees = mul(plus(Row(m).startingPrinciple, Row(m).returns),
                             SumFeeRates(config.fees, 1))
        /\ Row(m).endingPrinciple =
              minus(plus(Row(m).startingPrinciple, Row(m).returns), Row(m).fees)

C4_Witness ==
    /\ Len(tableData) = 3
    /\ gt(Contribution, Zero)
    /\ Row(2).returns # Zero
    /\ Row(2).fees # Zero
    /\ Row(2).fees # mul(Row(2).startingPrinciple, SumFeeRates(config.fees, 1))

\* the entries of monthlyReturns for month m
OverridesFor(m) ==
    { i \in 1..Len(config.monthlyReturns) : config.monthlyReturns[i].month = m }

\* the rate the rule of C5 prescribes for month m
PrescribedRate(m) ==
    IF OverridesFor(m) = {}
    THEN div(config.returns.value, config.returns.applied_time_unit)
    ELSE LET o == config.monthlyReturns[CHOOSE i \in OverridesFor(m) : TRUE]
         IN  IF o.isEmpty THEN Zero ELSE div(o.value, Dec(100))

\* C5: the rate of step m is zero when month m has an override marked empty,
\* the override's value / 100 when it has one that is not empty, and
\* returns.value / returns.applied_time_unit otherwise; that rate is the one
\* the row reports (momGrossReturnRate / 100) and the one its return is made with.
C5_RateUsed ==
    \A m \in Months :
        /\ Row(m).momGrossReturnRate = mul(PrescribedRate(m), Dec(100))
        /\ Row(m).returns = mul(Row(m).startingPrinciple, PrescribedRate(m))

C5_Witness ==
    /\ Len(tableData) = 3
    /\ config.returns.value # Zero
    /\ Row(1).startingPrinciple # Zero
    /\ \E i \in OverridesFor(1) : config.monthlyReturns[i].isEmpty
    /\ \E i \in OverridesFor(2) : ~config.monthlyReturns[i].isEmpty
    /\ Row(1).returns = Zero
    /\ Row(2).returns # Zero

\* the fee lists that hold the same fees in another order
Reorderings(fees) ==
    { [i \in 1..Len(fees) |-> fees[f[i]]] :
        f \in { g \in [1..Len(fees) -> 1..Len(fees)] :
                  \A a, b \in 1..Len(fees) : g[a] = g[b] => a = b } }

\* C6: the step's fee is the plain sum of the fees, each charged on the same
\* post-return principal: it is that principal times the sum of the per-month
\* fee rates and is the same for every order of the fee list.
C6_FeesSummed ==
    \A m \in Months :
        LET base == plus(Row(m).startingPrinciple, Row(m).returns)
        IN  /\ Row(m).fees = mul(base, SumFeeRates(config.fees, 1))
            /\ \A other \in Reorderings(config.fees) :
                  calculateMonthlyFees([config EXCEPT !.fees = other], base)
                      = Row(m).fees

C6_Witness ==
    /\ Len(tableData) = 3
    /\ Len(config.fees) = 2
    /\ config.fees[1] # config.fees[2]
    /\ Row(2).fees # Zero
    /\ Row(2).returns # Zero

\* C7: cumulativeContributions never decreases from one row to the next,
\* whatever the sign of the monthly contribution.
C7_ContributionsMonotone ==
    \A m \in Months :
        gte(Row(m).cumulativeContributions, Row(m - 1).cumulativeContributions)

C7_Witness ==
    /\ Len(tableData) = 3
    /\ gt(Zero, Contribution)
    /\ Row(2).startingPrinciple = Row(1).endingPrinciple
    /\ Row(2).cumulativeContributions = config.global.starting_principle

\* C8: no step's fee is negative and cumulativeFees never decreases, for every
\* configuration, return overrides below -100% included.
C8_FeesMonotone ==
    \A m \in Months :
        /\ gte(Row(m).fees, Zero)
        /\ gte(Row(m).cumulativeFees, Row(m - 1).cumulativeFees)

\* C9: with a monthly contribution c > 0, cumulativeContributions[m] is the
\* starting principal plus m * c in every row m.
C9_ContributionsTotal ==
    gt(Contribution, Zero) =>
        \A m \in 0..(Len(tableData) - 1) :
            Row(m).cumulativeContributions =
                plus(config.global.starting_principle, mul(Dec(m), Contribution))

C9_Witness ==
    /\ Len(tableData) = 3
    /\ gt(Contribution, Zero)
    /\ Row(2).cumulativeContributions # Row(2).endingPrinciple
    /\ Row(2).fees # Zero
    /\ Row(2).returns # Zero

\* the rows 0..last that calculate builds for cfg, as pushed by addTableRow
RECURSIVE RunMonths(_, _, _, _)
RunMonths(cfg, table, m, last) ==
    IF m > last THEN table
    ELSE RunMonths(cfg,
                   Append(table,
                          calculateMonth(cfg, calculateDefaultMonthlyReturnRate(cfg),
                                         table[m], m)),
                   m + 1, last)

\* the configuration that differs from config only in having no fee
FeeFreeConfig == [config EXCEPT !.fees = << >>]

\* C10: valueWithoutFees[m] equals the endingPrinciple[m] of the calculation
\* run on the same configuration with an empty fee list.
C10_FeeFreeShadow ==
    Len(tableData) >= 1 =>
        LET shadow == RunMonths(FeeFreeConfig, initializeTable(FeeFreeConfig),
                                1, Len(tableData) - 1)
        IN  \A m \in 0..(Len(tableData) - 1) :
                Row(m).valueWithoutFees = shadow[m + 1].endingPrinciple

C10_Witness ==
    /\ Len(tableData) = 3
    /\ gt(Contribution, Zero)
    /\ Len(config.fees) >= 1
    /\ OverridesFor(2) # {}
    /\ Row(2).returns # Zero
    /\ Row(2).valueWithoutFees # Row(2).endingPrinciple

\* C11: for every row m >= 1 the total return rates are measured against the
\* cumulative contributions, not the starting principal: totalNetReturnRate[m]
\* = (endingPrinciple[m] / cumulativeContributions[m] - 1) * 100 and
\* totalGrossReturnRate[m] = (valueWithoutFees[m] / cumulativeContributions[m]
\* - 1) * 100.
C11_TotalRates ==
    \A m \in Months :
        /\ Row(m).totalNetReturnRate =
              mul(minus(div(Row(m).endingPrinciple, Row(m).cumulativeContributions),
                        Dec(1)), Dec(100))
        /\ Row(m).totalGrossReturnRate =
              mul(minus(div(Row(m).valueWithoutFees, Row(m).cumulativeContributions),
                        Dec(1)), Dec(100))

C11_Witness ==
    /\ Len(tableData) = 3
    /\ gt(Contribution, Zero)
    /\ gt(config.global.starting_principle, Zero)
    /\ Row(2).cumulativeContributions # config.global.starting_principle
    /\ Row(2).fees # Zero
    /\ Row(2).totalNetReturnRate # Row(2).totalGrossReturnRate
    /\ isFinite(Row(2).totalNetReturnRate)

\* months whose analytics have completed (row patched)
Patched == { m \in Months : m < month }

\* the contribution of a period as the return metrics count it
PeriodContribution == IF gt(Contribution, Zero) THEN Contribution ELSE Zero

\* the product over i in 1..m of (endingPrinciple[i] - contribution) / endingPrinciple[i-1]
RECURSIVE LinkedRows(_)
LinkedRows(m) ==
    IF m = 0 THEN Dec(1)
    ELSE mul(LinkedRows(m - 1),
             div(minus(Row(m).endingPrinciple, PeriodContribution),
                 Row(m - 1).endingPrinciple))

\* C12: for every row m >= 1 whose analytics are complete, timeWeightedReturn[m]
\* is the geometric link of the period returns taken from the committed rows,
\* row m's own endingPrinciple included: (PRODUCT over i in 1..m of
\* (endingPrinciple[i] - contribution) / endingPrinciple[i-1] - 1) * 100,
\* monthly return overrides for month m included.
C12_TwrLinksRows ==
    \A m \in Patched :
        Row(m).timeWeightedReturn = mul(minus(LinkedRows(m), Dec(1)), Dec(100))

\* C12, restricted to the failing input: finite rows, no fee, no contribution,
\* an override for month 1 that differs from the default rate
C12_OverrideCase ==
    (/\ 1 \in Patched
     /\ config.fees = << >>
     /\ isZero(Contribution)
     /\ config.global.starting_principle = Dec(4)
     /\ config.returns.value = Zero
     /\ Len(config.monthlyReturns) = 2
     /\ config.monthlyReturns[1] = Override(1, 50, FALSE))
        => Row(1).timeWeightedReturn = mul(minus(LinkedRows(1), Dec(1)), Dec(100))

\* timeWeightedReturn[m] of the calculation run on cfg
TimeWeightedReturnOf(cfg, m) ==
    calculateTimeWeightedReturn(cfg, calculateDefaultMonthlyReturnRate(cfg),
                                RunMonths(cfg, initializeTable(cfg), 1, m), m)

\* the configuration that differs from config only in the monthly contribution
WithContribution(c) == [config EXCEPT !.global.monthly_contribution = c]

\* non-negative contribution amounts to compare with
OtherContributions == { Dec(0), Dec(1), Dec(2) }

\* C13: the time-weighted return does not depend on the contribution size: a
\* configuration that differs from this one only in its (non-negative) monthly
\* contribution has the same timeWeightedReturn[m] in every month m.
C13_TwrContributionInvariant ==
    gte(Contribution, Zero) =>
        \A m \in Patched : \A c \in OtherContributions :
            TimeWeightedReturnOf(WithContribution(c), m) = Row(m).timeWeightedReturn

\* C13 on the failing input: finite values, one fee, no return, no override
C13_FeeCase ==
    (/\ 1 \in Patched
     /\ config.fees = << QuarterFee >>
     /\ config.returns.value = Zero
     /\ config.monthlyReturns = << >>
     /\ config.global.starting_principle = Dec(4)
     /\ isZero(Contribution))
        => /\ Row(1).timeWeightedReturn = Dec(-25)
           /\ TimeWeightedReturnOf(WithContribution(Dec(2)), 1) = Dec(-25)

\* C14: with a monthly contribution of exactly zero, moneyWeightedReturn[m]
\* equals totalNetReturnRate[m] in every row m >= 1 whose analytics are
\* complete, monthly return overrides included.
C14_MwrIsTotalNet ==
    isZero(Contribution) =>
        \A m \in Patched : Row(m).moneyWeightedReturn = Row(m).totalNetReturnRate

\* the schedule calculateMoneyWeightedReturn builds for the month being patched
ScheduleFlows == cashFlows(config, defaultMonthlyReturnRate, tableData, month)

ScheduleDates == dates(config, month)

\* d1 is not later than d2
DateLeq(d1, d2) ==
    \/ d1.year < d2.year
    \/ d1.year = d2.year /\ d1.month < d2.month
    \/ d1.year = d2.year /\ d1.month = d2.month /\ d1.day <= d2.day

\* C15: with a monthly contribution > 0 the cash-flow schedule built for month
\* m >= 1 has m + 2 entries in non-decreasing date order: -startingPrincipal at
\* start_date, then -monthlyContribution dated start_date + i months for each
\* i in 1..m, then one inflow dated start_date + m months equal to the
\* endingPrinciple committed in row m.
C15_Schedule ==
    (pc = "patch" /\ gt(Contribution, Zero)) =>
        /\ Len(ScheduleFlows) = month + 2
        /\ Len(ScheduleDates) = month + 2
        /\ \A i \in 1..(month + 1) : DateLeq(ScheduleDates[i], ScheduleDates[i + 1])
        /\ ScheduleFlows[1] = neg(config.global.starting_principle)
        /\ ScheduleDates[1] = config.global.start_date
        /\ \A i \in 1..month :
              /\ ScheduleFlows[i + 1] = neg(Contribution)
              /\ ScheduleDates[i + 1] = SetMonth(config.global.start_date, i)
        /\ ScheduleFlows[month + 2] = Row(month).endingPrinciple
        /\ ScheduleDates[month + 2] = SetMonth(config.global.start_date, month)

C15_Witness ==
    /\ pc = "patch"
    /\ month = 2
    /\ gt(Contribution, Zero)
    /\ OverridesFor(2) # {}
    /\ config.global.start_date.day = 31
    /\ ScheduleDates[2].month = 2
    /\ ScheduleFlows[4] # Zero
    /\ ScheduleFlows[4] # finalValueReplayed(config, defaultMonthlyReturnRate,
                                             tableData, month)

\* C16: the IRR solver evaluates the NPV at most 100 times and never throws;
\* every pass through its loop either returns a rate or moves to the next of
\* at most 100 iterations, and calculate is never ended by an exception: each
\* solve that returns lets the month complete, and the sequence calculate
\* returns holds all monthDiff + 1 rows.
C16_SolverTerminates ==
    /\ [](/\ evaluations <= MAX_ITERATIONS
          /\ iteration <= MAX_ITERATIONS
          /\ pc # "error"
          /\ month <= monthDiff + 1)
    /\ [][/\ pc = "irr" =>
               \/ pc' = "irrDone"
               \/ pc' = "irr" /\ iteration' = iteration + 1
          /\ (pc \in {"patch", "irrDone"} /\ pc' # pc) =>
               \/ pc' = "irr"
               \/ pc' = "loop" /\ month' = month + 1
          /\ (pc = "loop" /\ pc' = "returned") =>
               /\ Len(results') = Len(results) + 1
               /\ Len(results'[Len(results')]) = monthDiff + 1]_vars

C16_Witness ==
    /\ pc = "irrDone"
    /\ iteration = MAX_ITERATIONS
    /\ evaluations = MAX_ITERATIONS
    /\ isNaN(rate)

\* calculate() on a new calculator for cfg, as a function of cfg and of the
\* value the solver returns for each month's schedule
RECURSIVE RunCalculate(_, _, _, _, _)
RunCalculate(cfg, oracle, table, m, last) ==
    IF m > last THEN table
    ELSE LET defRate == calculateDefaultMonthlyReturnRate(cfg)
             pushed  == Append(table, calculateMonth(cfg, defRate, table[m], m))
             irr     == IF m \in DOMAIN oracle THEN oracle[m] ELSE Dec(0)
         IN  RunCalculate(cfg, oracle,
                 [pushed EXCEPT
                     ![m + 1].timeWeightedReturn =
                         calculateTimeWeightedReturn(cfg, defRate, pushed, m),
                     ![m + 1].moneyWeightedReturn =
                         calculateMoneyWeightedReturn(cfg, defRate, pushed, m, irr)],
                 m + 1, last)

calculateInvestment(cfg, oracle) ==
    RunCalculate(cfg, oracle, initializeTable(cfg), 1, calculateMonthDifference(cfg))

\* C17: every sequence calculate returns is the one function of the
\* configuration (equal configurations give equal sequences, a second call on
\* the same calculator returns a sequence equal to the first), and a returned
\* sequence is never changed afterwards: the array a running calculate writes
\* to is none of the arrays returned before.
C17_Deterministic ==
    /\ [](/\ \A k \in 1..Len(results) :
                results[k] = calculateInvestment(config, irrOracle)
          /\ \A j, k \in 1..Len(results) : results[j] = results[k]
          /\ pc \in {"loop", "patch"} =>
                \A k \in 1..Len(returnedRefs) : returnedRefs[k] # tableRef)
    /\ [][\A k \in 1..Len(results) : results'[k] = results[k]]_vars

C17_Witness ==
    /\ Len(results) = 2
    /\ pc = "returned"
    /\ monthDiff = 2
    /\ ~isZero(Contribution)
    /\ Len(config.fees) >= 1
    /\ results[1][3].moneyWeightedReturn # Zero
    /\ results[1][3].timeWeightedReturn # Zero
    /\ returnedRefs[1] # returnedRefs[2]

\* row r with its two weighted returns blanked
WithoutWeightedReturns(r) ==
    [r EXCEPT !.timeWeightedReturn = Zero, !.moneyWeightedReturn = Zero]

\* what a step taken inside calculate may do to the table
TableStep ==
    pc \in {"loop", "patch"} =>
        /\ Len(tableData') \in { Len(tableData), Len(tableData) + 1 }
        /\ \A i \in 1..Len(tableData) :
              IF i <= month
              THEN tableData'[i] = tableData[i]
              ELSE WithoutWeightedReturns(tableData'[i])
                       = WithoutWeightedReturns(tableData[i])
        /\ (Len(tableData') = Len(tableData) + 1) =>
              (/\ pc = "loop"
               /\ Len(tableData') = month + 1
               /\ tableData'[month + 1].month = month)

\* C18: within a calculate invocation the table only grows, by one row at a
\* time and at its end; while month k is processed the rows of the months
\* before k (whose analytics are complete) do not change in any field, and row
\* k, once appended as the row of month k, changes in timeWeightedReturn and
\* moneyWeightedReturn only.
C18_AppendOnly == [][TableStep]_vars

C18_Witness ==
    /\ pc = "loop"
    /\ month = 3
    /\ Len(tableData) = 3
    /\ Row(2).timeWeightedReturn # Zero
    /\ Row(2).moneyWeightedReturn # Zero
    /\ Row(1).timeWeightedReturn # Row(2).timeWeightedReturn

\* rows 0 and 1 of calculateInvestment(defaultConfig), as pushed
DefaultRows == RunMonths(defaultConfig, initializeTable(defaultConfig), 1, 1)

\* C19: calculateInvestment(defaultConfig) returns 13 rows (months 0..12), row 0
\* has startingPrinciple = endingPrinciple = 100, and the fee of row 1 is 1.00
\* to two decimals (a fact about the exported constant, evaluated where a
\* calculator has been constructed).
C19_DefaultRun ==
    pc = "constructed" =>
        /\ calculateMonthDifference(defaultConfig) + 1 = 13
        /\ DefaultRows[1].startingPrinciple = Dec(100)
        /\ DefaultRows[1].endingPrinciple = Dec(100)
        /\ gte(DefaultRows[2].fees, DecQ(995, 1000))
        /\ gt(DecQ(1005, 1000), DefaultRows[2].fees)

\* the case of C20: positive starting principal and contribution, 0% return,
\* no override, total fee rate strictly between 0 and 1
DilutionCase ==
    /\ gt(Contribution, Zero)
    /\ gt(config.global.starting_principle, Zero)
    /\ isZero(config.returns.value)
    /\ config.monthlyReturns = << >>
    /\ gt(SumFeeRates(config.fees, 1), Zero)
    /\ gt(Dec(1), SumFeeRates(config.fees, 1))

\* the configurations with no contribution and the same total fee rate
NonContributing ==
    { [config EXCEPT !.global.monthly_contribution = Zero, !.fees = fl] :
        fl \in { l \in FeeLists \cup Reorderings(config.fees) :
                    SumFeeRates(l, 1) = SumFeeRates(config.fees, 1) } }

\* C20: with a positive starting principal, 0% return, no overrides and a total
\* fee rate strictly between 0 and 1, totalNetReturnRate[m] of a configuration
\* with a positive monthly contribution is strictly greater than that of the
\* configuration with the same fee rate and no contribution, for every m >= 2,
\* and both are negative.
C20_Dilution ==
    DilutionCase =>
        \A m \in Months : m >= 2 =>
            \A other \in NonContributing :
                LET rows == RunMonths(other, initializeTable(other), 1, m)
                IN  /\ gt(Row(m).totalNetReturnRate, rows[m + 1].totalNetReturnRate)
                    /\ gt(Zero, Row(m).totalNetReturnRate)
                    /\ gt(Zero, rows[m + 1].totalNetReturnRate)

C20_Witness ==
    /\ DilutionCase
    /\ Len(tableData) = 3
    /\ Len(config.fees) = 2
    /\ Row(1).totalNetReturnRate = Dec(-75)
    /\ Row(2).totalNetReturnRate = DecQ(-1425, 16)
    /\ gt(Row(2).totalNetReturnRate, DecQ(-375, 4))

\* C22: for every step m >= 1 whose startingPrinciple (contribution included)
\* is not zero, momNetReturnRate[m] = (endingPrinciple[m] / startingPrinciple[m]
\* - 1) * 100, which is ((1 + rate_m) * (1 - sum of the fee rates) - 1) * 100:
\* a function of the step's rate and the fee rates alone.
C22_MomNet ==
    \A m \in Months :
        ~isZero(Row(m).startingPrinciple) =>
            /\ Row(m).momNetReturnRate =
                  mul(minus(div(Row(m).endingPrinciple, Row(m).startingPrinciple),
                            Dec(1)), Dec(100))
            /\ Row(m).momNetReturnRate =
                  mul(minus(mul(plus(Dec(1), PrescribedRate(m)),
                                minus(Dec(1), SumFeeRates(config.fees, 1))),
                            Dec(1)), Dec(100))

C22_Witness ==
    /\ Len(tableData) = 3
    /\ gt(Contribution, Zero)
    /\ Len(config.fees) = 2
    /\ OverridesFor(2) # {}
    /\ ~isZero(PrescribedRate(2))
    /\ ~isZero(Row(2).startingPrinciple)
    /\ Row(2).momNetReturnRate # Row(1).momNetReturnRate
    /\ Row(2).momNetReturnRate # Row(2).momNetExclContribReturnRate

\* -0.99 <= r <= 100; NaN is not in the interval
InRateBounds(r) ==
    /\ isFinite(r)
    /\ IF r.n >= 0 THEN gte(Dec(100), r) ELSE gte(r, DecQ(-99, 100))

\* C23: every rate at which NPV and its derivative are evaluated lies in
\* [-0.99, 100], starting from the guess 0.10, and the rate the solver returns
\* lies in [-0.99, 100] as well.
C23_RateBounded ==
    /\ (pc = "irr" /\ evaluations = 0) => rate = DecQ(1, 10)
    /\ pc \in {"irr", "irrDone"} => InRateBounds(rate)

\* C23, the returning branch alone: a step shorter than PRECISION taken from
\* the lower bound is returned as it is, without the bounds applied
C23_ReturnedRateBounded ==
    (pc = "irrDone" /\ ~isNaN(rate)) => InRateBounds(rate)

\* C24: calculate never breaches a helper's precondition: the IRR helper gets
\* cash-flow and date lists of equal length, and the single-period helper is
\* called for month i only when row i is in the table; neither error is raised.
C24_NoHelperError ==
    /\ pc # "error"
    /\ pc = "patch" =>
          /\ ~PatchThrows
          /\ Len(cashFlows(config, defaultMonthlyReturnRate, tableData, month))
                = Len(dates(config, month))
          /\ \A i \in 1..(month - 1) : Len(tableData) > i

C24_Witness ==
    /\ pc = "patch"
    /\ month = 2
    /\ gt(Zero, Contribution)
    /\ Len(cashFlows(config, defaultMonthlyReturnRate, tableData, month)) = 4

\* the fields of a row that hold an amount of money
MoneyFields ==
    {"startingPrinciple", "endingPrinciple", "returns", "fees",
     "valueWithoutFees", "cumulativeFees", "cumulativeContributions"}

\* the fields of a row computed as a quotient by a balance
RatioFields ==
    {"feesPercentage", "totalGrossReturnRate", "momNetReturnRate",
     "momNetExclContribReturnRate", "totalNetReturnRate",
     "timeWeightedReturn", "moneyWeightedReturn"}

DegenerateConfig ==
    isZero(config.global.starting_principle) /\ isZero(Contribution)

\* C25: with starting principal 0 and contribution 0 calculate raises nothing
\* and returns monthCount + 1 rows; every money field of every row is zero and
\* only the ratio-based fields are non-finite (NaN in every row past row 0).
C25_DegenerateRun ==
    DegenerateConfig =>
        /\ pc # "error"
        /\ \A j \in 1..Len(tableData) :
              \A f \in MoneyFields : isZero(tableData[j][f])
        /\ \A k \in 1..Len(results) :
              /\ Len(results[k]) = (IF monthDiff >= 0 THEN monthDiff + 1 ELSE 1)
              /\ \A j \in 1..Len(results[k]) :
                    /\ \A f \in MoneyFields : isZero(results[k][j][f])
                    /\ isFinite(results[k][j].momGrossReturnRate)
                    /\ results[k][j].month = j - 1
                    /\ \A f \in RatioFields :
                          IF j = 1 THEN isZero(results[k][j][f])
                          ELSE isNaN(results[k][j][f])

C25_Witness ==
    /\ DegenerateConfig
    /\ pc = "returned"
    /\ monthDiff = 2
    /\ Len(results[Len(results)]) = 3
    /\ Len(config.fees) > 0
    /\ isNaN(results[Len(results)][3].feesPercentage)
    /\ isNaN(results[Len(results)][3].timeWeightedReturn)
    /\ isZero(results[Len(results)][3].endingPrinciple)

\* the divisors used for row m: the starting principal (feesPercentage,
\* momNetReturnRate), the cumulative contributions (total rates) and the
\* previous ending principal (momNetExclContribReturnRate, period returns)
Divisors(m) ==
    { Row(m).startingPrinciple, Row(m).cumulativeContributions,
      Row(m - 1).endingPrinciple }

\* C26: when the starting principal or the monthly contribution is positive,
\* every step's return rate is > -100% and the total fee rate is < 100%, no
\* divisor used for rows 1..monthCount is zero.
C26_NoZeroDivisor ==
    ( /\ gt(config.global.starting_principle, Zero) \/ gt(Contribution, Zero)
      /\ gt(Dec(1), SumFeeRates(config.fees, 1)) ) =>
        \A m \in Months :
            (\A j \in 1..m : gt(ReportedRate(j), Dec(-1))) =>
                \A x \in Divisors(m) : ~isZero(x)

\* C26, the case it misses: nothing to start with and a positive contribution
C26_EmptyStart ==
    /\ isZero(config.global.starting_principle)
    /\ gt(Contribution, Zero)
    /\ config.fees = << >>
    /\ Len(tableData) = 2
    /\ pc = "loop"
    /\ isZero(ReportedRate(1))
    /\ ~isZero(Row(1).startingPrinciple)
    /\ Row(1).momNetExclContribReturnRate = DInf(1)
    /\ isNaN(Row(1).timeWeightedReturn)

\* the sum of field f over rows 1..m
RECURSIVE SumOver(_, _)
SumOver(f, m) == IF m = 0 THEN Zero ELSE plus(Row(m)[f], SumOver(f, m - 1))

\* C27: for every row m, endingPrinciple[m] = cumulativeContributions[m] +
\* (sum of returns[1..m]) - cumulativeFees[m], and cumulativeFees[m] is the sum
\* of fees[1..m]: the balance changes by contributions, returns and fees only.
C27_Accounting ==
    \A m \in 0..(Len(tableData) - 1) :
        /\ Row(m).endingPrinciple =
              minus(plus(Row(m).cumulativeContributions, SumOver("returns", m)),
                    Row(m).cumulativeFees)
        /\ Row(m).cumulativeFees = SumOver("fees", m)

C27_Witness ==
    /\ Len(tableData) = 3
    /\ gt(Contribution, Zero)
    /\ gt(config.global.starting_principle, Zero)
    /\ ~isZero(Row(1).returns)
    /\ ~isZero(Row(2).fees)
    /\ Row(2).cumulativeFees # Row(2).fees
    /\ Row(2).endingPrinciple # Row(2).cumulativeContributions
    /\ Row(2).cumulativeContributions # Row(1).cumulativeContributions

\* the sum of entries 1..i of a sequence of decimals
RECURSIVE SumSeq(_, _)
SumSeq(s, i) == IF i = 0 THEN Zero ELSE plus(s[i], SumSeq(s, i - 1))

\* what the schedule of month `month` records as paid in: every entry but the
\* closing value, with the sign turned
ScheduleOutflowTotal ==
    LET flows == cashFlows(config, defaultMonthlyReturnRate, tableData, month)
    IN  neg(SumSeq(flows, Len(flows) - 1))

\* C28: whenever the root-finding case is taken for month m (contribution not
\* zero, positive or negative), the total of the schedule's outflows equals
\* cumulativeContributions[m] of row m.
C28_ScheduleMatchesStepper ==
    (pc = "patch" /\ ~isZero(Contribution)) =>
        ScheduleOutflowTotal = Row(month).cumulativeContributions

\* C28 for a contribution > 0, where schedule and stepper agree
C28_PositiveCase ==
    (pc = "patch" /\ gt(Contribution, Zero)) =>
        ScheduleOutflowTotal = Row(month).cumulativeContributions

=============================================================================
